---- MODULE Spec2Model ----
(***************************************************************************)
(* Zeppelin plugin utilities: canActOn, the owner pre-filter of the        *)
(* bot_reload_global_plugins command, sendWhere, rehostAttachment, the     *)
(* Slowmode plugin's load/unload hooks and the plugin config preprocessor. *)
(* The six parts share no state; each has its own next-state relation and  *)
(* its own specification over the same initial state.                      *)
(***************************************************************************)
EXTENDS Integers, Sequences, FiniteSets, TLC

VARIABLES
    ca_call,        \* the last canActOn call: its arguments and its result
    globalConfig,   \* knub.getGlobalConfig(): whether loaded, and its owners list
    activeReload,   \* activeReload.ts: the recorded reload, if any
    pendingRuns,    \* runs of the reload command awaiting channel.createMessage
    reloadCalls,    \* number of calls of reloadAllGlobalPlugins()
    commandsFrom,   \* authors that have sent bot_reload_global_plugins so far
    lastFilter,     \* the last isOwnerPreFilter evaluation
    whereCalls,     \* invocations of sendWhere
    rehostCalls,    \* invocations of rehostAttachment
    sm_loaded,      \* Slowmode: guild -> its loaded plugin instance (0: none)
    sm_listeners,   \* Slowmode: 'create' listeners on each guild's savedMessages.events
    sm_timers,      \* Slowmode: instances whose setInterval timer is active
    sm_next,        \* Slowmode: number of plugin instances created so far
    sm_unloaded,    \* Slowmode: instances for which onUnload has run
    sm_runs,        \* Slowmode: callbacks that have run, and whether after their onUnload
    pp              \* the config preprocessor: construction, call and progress

caVars == <<ca_call>>
ownerVars == <<globalConfig, activeReload, pendingRuns, reloadCalls, commandsFrom, lastFilter>>
whereVars == <<whereCalls>>
rehostVars == <<rehostCalls>>
slowmodeVars == <<sm_loaded, sm_listeners, sm_timers, sm_next, sm_unloaded, sm_runs>>
configVars == <<pp>>
vars == <<ca_call, globalConfig, activeReload, pendingRuns, reloadCalls, commandsFrom,
          lastFilter, whereCalls, rehostCalls, sm_loaded, sm_listeners, sm_timers,
          sm_next, sm_unloaded, sm_runs, pp>>

(***************************************************************************)
(* Part 1: canActOn (pluginUtils.ts)                                       *)
(***************************************************************************)

\* Highest permission level a member is given in the model (knub levels are 0..100).
MaxLevel == 2

Levels == 0..MaxLevel

\* pluginData.client.user.id
ClientUserId == "bot"

Members == {ClientUserId, "u1", "u2"}

\* The allowSameLevel argument as passed: omitted, or an explicit boolean.
AllowSameLevelArgs == {"omitted", "true", "false"}

\* The default parameter value: allowSameLevel = false.
allowSameLevelDefault(arg) == IF arg = "omitted" THEN FALSE ELSE arg = "true"

canActOn_SameLevelAlways(level, member1, member2, allowSameLevel) ==
    IF member2 = ClientUserId
    THEN FALSE
    ELSE level[member1] >= level[member2]

\* level[m] is helpers.getMemberLevel(pluginData, m).
canActOn(level, member1, member2, allowSameLevel) ==
    IF member2 = ClientUserId
    THEN FALSE
    ELSE IF allowSameLevel
         THEN level[member1] >= level[member2]
         ELSE level[member1] > level[member2]

ca_Init == ca_call = [called |-> FALSE, member1 |-> ClientUserId, member2 |-> ClientUserId,
                      allow |-> "omitted", level |-> [m \in Members |-> 0],
                      result |-> FALSE]

\* One call of canActOn with arbitrary members, levels and allowSameLevel.
CallCanActOn ==
    \E m1 \in Members, m2 \in Members, a \in AllowSameLevelArgs, lv \in [Members -> Levels] :
        ca_call' = [called |-> TRUE, member1 |-> m1, member2 |-> m2, allow |-> a,
                    level |-> lv,
                    result |-> canActOn(lv, m1, m2, allowSameLevelDefault(a))]

(***************************************************************************)
(* Part 2: isOwner, isOwnerPreFilter and ReloadGlobalPluginsCmd            *)
(***************************************************************************)

Users == {"u1", "u2", "u3"}

\* The channels a command arrives in: a guild text channel and a DM channel.
Channels == {"c1", "dm"}

\* (message.channel as TextChannel).guild?.id
guildIdOf(channel) == IF channel = "c1" THEN "g1" ELSE "undefined"

isOwner_NoListAdmits(config, userId) ==
    IF ~config.hasOwners
    THEN TRUE
    ELSE userId \in config.owners

isOwner(config, userId) ==
    IF ~config.hasOwners
    THEN FALSE
    ELSE userId \in config.owners

isOwnerPreFilter(config, author) == isOwner(config, author)

NoReload == [set |-> FALSE, guildId |-> "undefined", channelId |-> "undefined"]

getActiveReload == activeReload.set

owner_Init ==
    /\ globalConfig = [loaded |-> FALSE, hasOwners |-> FALSE, owners |-> {}]
    /\ activeReload = NoReload
    /\ pendingRuns = {}
    /\ reloadCalls = 0
    /\ commandsFrom = {}
    /\ lastFilter = [set |-> FALSE, author |-> "u1", admitted |-> FALSE]

\* The global config is read once at startup; its owners list may be absent.
LoadGlobalConfig ==
    /\ ~globalConfig.loaded
    /\ \/ globalConfig' = [loaded |-> TRUE, hasOwners |-> FALSE, owners |-> {}]
       \/ \E os \in SUBSET Users :
              globalConfig' = [loaded |-> TRUE, hasOwners |-> TRUE, owners |-> os]
    /\ UNCHANGED <<activeReload, pendingRuns, reloadCalls, commandsFrom, lastFilter>>

\* A bot_reload_global_plugins message: the pre-filter, then run() up to its await.
ReloadGlobalPluginsCmd(author, channel) ==
    /\ globalConfig.loaded
    /\ commandsFrom' = commandsFrom \cup {author}
    /\ lastFilter' = [set |-> TRUE, author |-> author,
                      admitted |-> isOwnerPreFilter(globalConfig, author)]
    /\ IF isOwnerPreFilter(globalConfig, author) /\ ~getActiveReload
       THEN /\ activeReload' = [set |-> TRUE, guildId |-> guildIdOf(channel),
                                channelId |-> channel]
            /\ pendingRuns' = pendingRuns \cup {[author |-> author, channel |-> channel]}
       ELSE UNCHANGED <<activeReload, pendingRuns>>
    /\ UNCHANGED <<globalConfig, reloadCalls>>

\* "Reloading global plugins..." was sent: run() goes on to reloadAllGlobalPlugins().
ReloadMessageSent(run) ==
    /\ run \in pendingRuns
    /\ pendingRuns' = pendingRuns \ {run}
    /\ reloadCalls' = reloadCalls + 1
    /\ UNCHANGED <<globalConfig, activeReload, commandsFrom, lastFilter>>

\* createMessage rejected: run() rejects before reloadAllGlobalPlugins().
ReloadMessageFailed(run) ==
    /\ run \in pendingRuns
    /\ pendingRuns' = pendingRuns \ {run}
    /\ UNCHANGED <<globalConfig, activeReload, reloadCalls, commandsFrom, lastFilter>>

(***************************************************************************)
(* Part 3: sendWhere (LocateUser/utils/sendWhere.ts)                       *)
(***************************************************************************)

\* Number of sendWhere invocations that may be in flight together.
NumWhereCalls == 2

WhereCalls == 1..NumWhereCalls

\* pluginData.guild.channels: the voice channels the guild holds, with their names.
GuildVoiceChannels == {"v1", "v2"}

voiceName(id) == IF id = "v1" THEN "General" ELSE "Music"

\* member.voiceState.channelID: none, a channel of the guild, or one the guild lacks.
VoiceChannelIDs == {"null", "v1", "v2", "gone"}

Prepends == {"", "mention "}

InviteCodes == {"abc", "xyz"}

\* knub's getInviteLink(invite)
getInviteLink(code) == <<"https://discord.gg", code>>

\* pluginData.guild.channels.get(member.voiceState.channelID), compared with null
voiceIsNull(channelID) == channelID \notin GuildVoiceChannels

NotInChannelMessage(prepend) ==
    [kind |-> "notInChannel", prepend |-> prepend,
     text |-> "That user is not in a channel", name |-> "", link |-> <<>>]

InviteErrorMessage ==
    [kind |-> "error", prepend |-> "",
     text |-> "Cannot create an invite to that channel!", name |-> "", link |-> <<>>]

LocationMessage(prepend, channelID, link) ==
    [kind |-> "location", prepend |-> prepend,
     text |-> "is in the following channel", name |-> voiceName(channelID), link |-> link]

where_Init ==
    whereCalls = [c \in WhereCalls |->
                    [pc |-> "idle", channelID |-> "null", prepend |-> "",
                     invitesRequested |-> 0, invite |-> "none", sent |-> <<>>]]

\* sendWhere up to its await: the lookup of the voice channel and, if found, the
\* call of createOrReuseInvite.
sendWhere(c, channelID, prepend) ==
    /\ whereCalls[c].pc = "idle"
    /\ whereCalls' = [whereCalls EXCEPT ![c] =
          IF voiceIsNull(channelID)
          THEN [@ EXCEPT !.pc = "done", !.channelID = channelID, !.prepend = prepend,
                         !.sent = Append(@, NotInChannelMessage(prepend))]
          ELSE [@ EXCEPT !.pc = "awaitInvite", !.channelID = channelID,
                         !.prepend = prepend, !.invitesRequested = @ + 1]]

\* createOrReuseInvite resolved: the location message is sent.
InviteResolved(c, code) ==
    /\ whereCalls[c].pc = "awaitInvite"
    /\ whereCalls' = [whereCalls EXCEPT ![c] =
          [@ EXCEPT !.pc = "done", !.invite = code,
                    !.sent = Append(@, LocationMessage(whereCalls[c].prepend,
                                                       whereCalls[c].channelID,
                                                       getInviteLink(code)))]]

InviteThrew_NoReturn(c) ==
    /\ whereCalls[c].pc = "awaitInvite"
    /\ whereCalls' = [whereCalls EXCEPT ![c] =
          [@ EXCEPT !.pc = "done", !.invite = "threw",
                    !.sent = @ \o <<InviteErrorMessage,
                                    LocationMessage(whereCalls[c].prepend,
                                                    whereCalls[c].channelID, <<>>)>>]]

\* createOrReuseInvite threw: the catch block sends the error message and returns.
InviteThrew(c) ==
    /\ whereCalls[c].pc = "awaitInvite"
    /\ whereCalls' = [whereCalls EXCEPT ![c] =
          [@ EXCEPT !.pc = "done", !.invite = "threw",
                    !.sent = Append(@, InviteErrorMessage)]]

(***************************************************************************)
(* Part 4: rehostAttachment (ChannelArchiver/rehostAttachment.ts)          *)
(***************************************************************************)

\* Number of rehostAttachment invocations that may be in flight together.
NumRehostCalls == 2

RehostCalls == 1..NumRehostCalls

MAX_ATTACHMENT_REHOST_SIZE == 1024 * 1024 * 8

AttachmentSizes == {0, MAX_ATTACHMENT_REHOST_SIZE - 1, MAX_ATTACHMENT_REHOST_SIZE,
                    MAX_ATTACHMENT_REHOST_SIZE + 1}

RehostUrls == {"https://cdn/1", "https://cdn/2"}

\* rehostMessage.attachments as the platform returns it: possibly empty.
RehostAttachmentLists == {<<>>} \cup {<<u>> : u \in RehostUrls}

attachmentTooBig_Inclusive(size) == size >= MAX_ATTACHMENT_REHOST_SIZE

attachmentTooBig(size) == size > MAX_ATTACHMENT_REHOST_SIZE

rehost_Init ==
    rehostCalls = [c \in RehostCalls |->
                     [pc |-> "idle", size |-> 0, failed |-> "none", result |-> "",
                      downloads |-> 0, reads |-> 0, messages |-> 0]]

\* rehostAttachment up to its first await: the size check, then downloadFile(url, 3).
rehostAttachment(c, size) ==
    /\ rehostCalls[c].pc = "idle"
    /\ rehostCalls' = [rehostCalls EXCEPT ![c] =
          IF attachmentTooBig(size)
          THEN [@ EXCEPT !.pc = "returned", !.size = size, !.failed = "size",
                         !.result = "Attachment too big to rehost"]
          ELSE [@ EXCEPT !.pc = "downloading", !.size = size, !.downloads = @ + 1]]

\* downloadFile resolved: the second try block starts by awaiting fsp.readFile.
DownloadResolved(c) ==
    /\ rehostCalls[c].pc = "downloading"
    /\ rehostCalls' = [rehostCalls EXCEPT ![c] =
          [@ EXCEPT !.pc = "reading", !.reads = @ + 1]]

\* downloadFile rejected after its tries.
DownloadRejected(c) ==
    /\ rehostCalls[c].pc = "downloading"
    /\ rehostCalls' = [rehostCalls EXCEPT ![c] =
          [@ EXCEPT !.pc = "returned", !.failed = "download",
                    !.result = "Failed to download attachment after 3 tries"]]

\* fsp.readFile resolved: targetChannel.createMessage is called with the file.
ReadFileResolved(c) ==
    /\ rehostCalls[c].pc = "reading"
    /\ rehostCalls' = [rehostCalls EXCEPT ![c] =
          [@ EXCEPT !.pc = "posting", !.messages = @ + 1]]

\* fsp.readFile rejected: caught by the second try block.
ReadFileRejected(c) ==
    /\ rehostCalls[c].pc = "reading"
    /\ rehostCalls' = [rehostCalls EXCEPT ![c] =
          [@ EXCEPT !.pc = "returned", !.failed = "read",
                    !.result = "Failed to rehost attachment"]]

\* createMessage resolved: attachments[0].url is returned; with no attachment the
\* property access throws inside the try block.
CreateMessageResolved(c, attachments) ==
    /\ rehostCalls[c].pc = "posting"
    /\ rehostCalls' = [rehostCalls EXCEPT ![c] =
          IF Len(attachments) = 0
          THEN [@ EXCEPT !.pc = "returned", !.failed = "post",
                         !.result = "Failed to rehost attachment"]
          ELSE [@ EXCEPT !.pc = "returned", !.result = attachments[1]]]

\* createMessage rejected: caught by the second try block.
CreateMessageRejected(c) ==
    /\ rehostCalls[c].pc = "posting"
    /\ rehostCalls' = [rehostCalls EXCEPT ![c] =
          [@ EXCEPT !.pc = "returned", !.failed = "post",
                    !.result = "Failed to rehost attachment"]]

(***************************************************************************)
(* Part 5: SlowmodePlugin onLoad / onUnload (Slowmode/SlowmodePlugin.ts)   *)
(***************************************************************************)

\* Number of plugin instances (loads) over a run of the model.
MaxInstances == 3

Guilds == {"g1", "g2"}

Instances == 1..MaxInstances

slowmode_Init ==
    /\ sm_loaded = [g \in Guilds |-> 0]
    /\ sm_listeners = {}
    /\ sm_timers = {}
    /\ sm_next = 0
    /\ sm_unloaded = {}
    /\ sm_runs = {}

\* onLoad for a guild: a new pluginData, its interval timer and its listener on the
\* guild's shared GuildSavedMessages instance.
onLoad(g) ==
    /\ sm_loaded[g] = 0
    /\ sm_next < MaxInstances
    /\ sm_next' = sm_next + 1
    /\ sm_loaded' = [sm_loaded EXCEPT ![g] = sm_next + 1]
    /\ sm_timers' = sm_timers \cup {sm_next + 1}
    /\ sm_listeners' = sm_listeners \cup {[guild |-> g, instance |-> sm_next + 1]}
    /\ UNCHANGED <<sm_unloaded, sm_runs>>

\* onUnload for a guild's loaded instance: events.off for its listener, nothing else.
onUnload(g) ==
    /\ sm_loaded[g] # 0
    /\ sm_listeners' = sm_listeners \ {[guild |-> g, instance |-> sm_loaded[g]]}
    /\ sm_unloaded' = sm_unloaded \cup {sm_loaded[g]}
    /\ sm_loaded' = [sm_loaded EXCEPT ![g] = 0]
    /\ UNCHANGED <<sm_timers, sm_next, sm_runs>>

\* The interval of instance i elapses: clearExpiredSlowmodes(pluginData) runs.
IntervalElapsed(i) ==
    /\ i \in sm_timers
    /\ sm_runs' = sm_runs \cup {[instance |-> i, callback |-> "clearExpiredSlowmodes",
                                 stale |-> i \in sm_unloaded]}
    /\ UNCHANGED <<sm_loaded, sm_listeners, sm_timers, sm_next, sm_unloaded>>

\* savedMessages emits 'create' in a guild: every listener registered there runs.
SavedMessageCreated(g) ==
    /\ sm_runs' = sm_runs \cup
          {[instance |-> l.instance, callback |-> "onMessageCreate",
            stale |-> l.instance \in sm_unloaded] :
              l \in {x \in sm_listeners : x.guild = g}}
    /\ UNCHANGED <<sm_loaded, sm_listeners, sm_timers, sm_next, sm_unloaded>>

(***************************************************************************)
(* Part 6: getPluginConfigPreprocessor (pluginUtils.ts)                    *)
(*                                                                         *)
(* A config object is a function from key paths to scalar values: a nested *)
(* object {n: {x: 1}} is the paths "n" (holding Obj) and "n.x".            *)
(***************************************************************************)

\* Longest overrides array of an input.
MaxOverrides == 2

Obj == "{}"

Nums == {"1", "2"}

EmptyCfg == [p \in {} |-> ""]

parentOf(p) == IF p \in {"n.x", "n.y"} THEN "n" ELSE ""

\* blueprint.configSchema: a: number, b: nullable number,
\* n: nullable {x: number, y: nullable number}.
configSchema ==
    [p \in {"a", "b", "n", "n.x", "n.y"} |->
        [kind |-> IF p = "n" THEN "object" ELSE "number",
         nullable |-> p \in {"b", "n", "n.y"}]]

SchemaPaths == DOMAIN configSchema

\* blueprint.defaultOptions.config
defaultConfig == ("a" :> "1" @@ "b" :> "2")

typeMatches(schema, p, v) ==
    IF schema[p].kind = "object" THEN v = Obj ELSE v \in Nums

\* validate(tDeepPartial(schema), value): the paths whose value has the wrong type;
\* absent keys and keys the schema does not know are accepted. Empty: no error.
validate(schema, value) ==
    {p \in DOMAIN value \cap DOMAIN schema : ~typeMatches(schema, p, value[p])}

\* The errors of decodeAndValidateStrict(schema, value): wrong types, missing
\* non-nullable keys of objects that are present, and keys the schema lacks.
decodeErrors(schema, value) ==
    {p \in DOMAIN value \cap DOMAIN schema : ~typeMatches(schema, p, value[p])}
    \cup {p \in DOMAIN schema :
            /\ ~schema[p].nullable
            /\ p \notin DOMAIN value
            /\ \/ parentOf(p) = ""
               \/ parentOf(p) \in DOMAIN value /\ value[parentOf(p)] = Obj}
    \cup (DOMAIN value \ DOMAIN schema)

\* The value decodeAndValidateStrict returns when there is no error: the exact
\* (stripped) decoding of the input.
decodeAndValidateStrict(schema, value) ==
    [p \in DOMAIN value \cap DOMAIN schema |-> value[p]]

\* knub's configUtils.mergeConfig(base, over): over's keys win, objects merge.
mergeConfig(base, over) ==
    LET keepBase(p) ==
            /\ p \in DOMAIN base
            /\ p \notin DOMAIN over
            /\ \/ parentOf(p) = ""
               \/ parentOf(p) \notin DOMAIN over
               \/ over[parentOf(p)] = Obj
    IN  [p \in DOMAIN over \cup {q \in DOMAIN base : keepBase(q)} |->
            IF p \in DOMAIN over THEN over[p] ELSE base[p]]

\* deepKeyIntersect(obj, keyReference): obj's entries whose key keyReference has,
\* recursively where both hold an object.
deepKeyIntersect(obj, keyReference) ==
    LET top(k) == k \in DOMAIN obj /\ k \in DOMAIN keyReference
        kept(p) ==
            IF parentOf(p) = ""
            THEN top(p)
            ELSE /\ top(parentOf(p))
                 /\ p \in DOMAIN obj
                 /\ IF obj[parentOf(p)] = Obj /\ keyReference[parentOf(p)] = Obj
                    THEN p \in DOMAIN keyReference
                    ELSE TRUE
    IN  [p \in {q \in DOMAIN obj : kept(q)} |-> obj[p]]

\* The inputs of the model.
BaseConfigs ==
    { ("a" :> "1"),
      ("a" :> "1" @@ "b" :> "2"),
      ("a" :> "2" @@ "n" :> Obj @@ "n.x" :> "1"),
      ("b" :> "2"),
      ("a" :> "bad"),
      ("a" :> "1" @@ "z" :> "1") }

OverrideConfigs ==
    { ("b" :> "1"),
      ("n" :> Obj @@ "n.y" :> "2"),
      ("b" :> "bad") }

\* An override's level criterion: a string, or a value that is not one.
OverrideLevels == {">=50", "<10", "notString"}

Overrides ==
    {[level |-> l, hasConfig |-> FALSE, config |-> EmptyCfg] : l \in OverrideLevels}
    \cup {[level |-> l, hasConfig |-> TRUE, config |-> c] :
            l \in OverrideLevels, c \in OverrideConfigs}

OverrideLists == UNION {[1..k -> Overrides] : k \in 0..MaxOverrides}

\* PluginOptions: enabled, config and overrides, the last two possibly absent
\* (an absent config is written EmptyCfg with hasConfig false).
pluginOptions(enabled, config, hasOverrides, overrides) ==
    [enabled |-> enabled, hasConfig |-> config # EmptyCfg, config |-> config,
     hasOverrides |-> hasOverrides, overrides |-> overrides]

\* override.config || {}
overrideConfigOrEmpty(override) ==
    IF override.hasConfig THEN override.config ELSE EmptyCfg

\* The customPreprocessor argument: none, or a function of the options.
CustomPreprocessors == {"none", "identity", "fillRequired", "dropOverrides", "throws"}

\* What a custom preprocessor resolves to.
customPreprocessor(kind, options) ==
    CASE kind = "fillRequired" ->
            IF options.hasConfig /\ "a" \notin DOMAIN options.config
            THEN [options EXCEPT !.config = ("a" :> "1") @@ options.config]
            ELSE options
      [] kind = "dropOverrides" ->
            [options EXCEPT !.hasOverrides = FALSE, !.overrides = <<>>]
      [] OTHER -> options

\* validate(BasicPluginStructureType, options)
basicStructureErrors(options) ==
    (IF options.enabled = "notBoolean" THEN {"enabled"} ELSE {})
    \cup (IF \E i \in 1..Len(options.overrides) : options.overrides[i].level = "notString"
          THEN {"overrides"}
          ELSE {})

partialErrors_ConfigOnly(options) ==
    IF options.hasConfig /\ validate(configSchema, options.config) # {}
    THEN validate(configSchema, options.config)
    ELSE {}

\* Step 2: the first error of the partial validation of options.config and then
\* of each override's config, in order.
partialErrors(options) ==
    IF options.hasConfig /\ validate(configSchema, options.config) # {}
    THEN validate(configSchema, options.config)
    ELSE IF options.hasOverrides
         THEN LET bad == {i \in 1..Len(options.overrides) :
                            validate(configSchema,
                                     overrideConfigOrEmpty(options.overrides[i])) # {}}
              IN  IF bad = {}
                  THEN {}
                  ELSE validate(configSchema,
                                overrideConfigOrEmpty(options.overrides[
                                    CHOOSE i \in bad : \A j \in bad : i <= j]))
         ELSE {}

\* strictValidationErrorToConfigValidationError(err)
strictValidationErrorToConfigValidationError(errors) ==
    [type |-> "ConfigValidationError", errors |-> errors]

NoError == [type |-> "none", errors |-> {}]

NoResult == [config |-> EmptyCfg, overrides |-> <<>>]

\* The base config of step 4's merge: options.config.
step4Base(options) == IF options.hasConfig THEN options.config ELSE EmptyCfg

overrideConfigMergedWithBaseConfig(options, i) ==
    mergeConfig(step4Base(options), overrideConfigOrEmpty(options.overrides[i]))

decodedOverride_NoIntersect(override, decodedOverrideConfig) ==
    [override EXCEPT !.hasConfig = TRUE, !.config = decodedOverrideConfig]

\* { ...override, config: deepKeyIntersect(decodedOverrideConfig, override.config || {}) }
decodedOverride(override, decodedOverrideConfig) ==
    [override EXCEPT !.hasConfig = TRUE,
                     !.config = deepKeyIntersect(decodedOverrideConfig,
                                                 overrideConfigOrEmpty(override))]

decodedOverrides(options) ==
    [i \in 1..Len(options.overrides) |->
        decodedOverride(options.overrides[i],
                        decodeAndValidateStrict(configSchema,
                            overrideConfigMergedWithBaseConfig(options, i)))]

\* Step 4's first error: of options.config, then of each merged override config.
step4Errors(options) ==
    IF options.hasConfig /\ decodeErrors(configSchema, options.config) # {}
    THEN decodeErrors(configSchema, options.config)
    ELSE LET bad == {i \in 1..Len(options.overrides) :
                        decodeErrors(configSchema,
                                     overrideConfigMergedWithBaseConfig(options, i)) # {}}
         IN  IF bad = {}
             THEN {}
             ELSE decodeErrors(configSchema,
                               overrideConfigMergedWithBaseConfig(options,
                                   CHOOSE i \in bad : \A j \in bad : i <= j))

config_Init ==
    pp = [pc |-> "unbuilt", custom |-> "none",
          input |-> [enabled |-> "undefined", hasConfig |-> FALSE, config |-> EmptyCfg,
                     hasOverrides |-> FALSE, overrides |-> <<>>],
          options |-> [enabled |-> "undefined", hasConfig |-> FALSE, config |-> EmptyCfg,
                       hasOverrides |-> FALSE, overrides |-> <<>>],
          log |-> <<>>, customCalls |-> 0, error |-> NoError, result |-> NoResult]

\* getPluginConfigPreprocessor(blueprint, customPreprocessor)
getPluginConfigPreprocessor(custom) ==
    /\ pp.pc = "unbuilt"
    /\ pp' = [pp EXCEPT !.pc = "ready", !.custom = custom]

\* The returned function is called with options.
CallPreprocessor(options) ==
    /\ pp.pc = "ready"
    /\ pp' = [pp EXCEPT !.pc = "step1", !.input = options, !.options = options]

\* 1. Validate the basic structure of plugin config
Step1 ==
    /\ pp.pc = "step1"
    /\ pp' = IF basicStructureErrors(pp.options) # {}
             THEN [pp EXCEPT !.pc = "threw",
                             !.error = strictValidationErrorToConfigValidationError(
                                           basicStructureErrors(pp.options))]
             ELSE [pp EXCEPT !.pc = "step2", !.log = Append(@, "basic")]

\* 2. Validate config/overrides against the partial config schema
Step2 ==
    /\ pp.pc = "step2"
    /\ pp' = IF partialErrors(pp.options) # {}
             THEN [pp EXCEPT !.pc = "threw",
                             !.error = strictValidationErrorToConfigValidationError(
                                           partialErrors(pp.options))]
             ELSE [pp EXCEPT !.pc = "step3", !.log = Append(@, "partial")]

\* 3. Run custom preprocessor, if any: the call, up to the await
Step3 ==
    /\ pp.pc = "step3"
    /\ pp' = IF pp.custom = "none"
             THEN [pp EXCEPT !.pc = "step4"]
             ELSE [pp EXCEPT !.pc = "awaitCustom", !.customCalls = @ + 1,
                             !.log = Append(@, "custom")]

\* The custom preprocessor resolved: options is replaced by what it returned.
CustomResolved ==
    /\ pp.pc = "awaitCustom"
    /\ pp.custom # "throws"
    /\ pp' = [pp EXCEPT !.pc = "step4",
                        !.options = customPreprocessor(pp.custom, pp.options)]

\* The custom preprocessor rejected: the returned function rejects with its error.
CustomRejected ==
    /\ pp.pc = "awaitCustom"
    /\ pp.custom = "throws"
    /\ pp' = [pp EXCEPT !.pc = "threw", !.error = [type |-> "CustomError", errors |-> {}]]

\* 4. Validate/decode the entire config and every override merged with it.
Step4 ==
    /\ pp.pc = "step4"
    /\ pp' = IF step4Errors(pp.options) # {}
             THEN [pp EXCEPT !.pc = "threw",
                             !.error = strictValidationErrorToConfigValidationError(
                                           step4Errors(pp.options))]
             ELSE [pp EXCEPT !.pc = "returned", !.log = Append(@, "decode"),
                             !.result =
                                [config |-> IF pp.options.hasConfig
                                            THEN decodeAndValidateStrict(configSchema,
                                                                         pp.options.config)
                                            ELSE EmptyCfg,
                                 overrides |-> decodedOverrides(pp.options)]]

\* mergeConfig(options.config, ...) with options.config undefined: knub's mergeConfig
\* may throw on the undefined source instead of skipping it (Step4 is the other case).
Step4MergeThrows ==
    /\ pp.pc = "step4"
    /\ ~pp.options.hasConfig
    /\ Len(pp.options.overrides) > 0
    /\ pp' = [pp EXCEPT !.pc = "threw", !.error = [type |-> "TypeError", errors |-> {}]]

(***************************************************************************)
(* Specifications                                                          *)
(***************************************************************************)

Init ==
    /\ ca_Init
    /\ owner_Init
    /\ where_Init
    /\ rehost_Init
    /\ slowmode_Init
    /\ config_Init

notCaVars == <<ownerVars, whereVars, rehostVars, slowmodeVars, configVars>>
notOwnerVars == <<caVars, whereVars, rehostVars, slowmodeVars, configVars>>
notWhereVars == <<caVars, ownerVars, rehostVars, slowmodeVars, configVars>>
notRehostVars == <<caVars, ownerVars, whereVars, slowmodeVars, configVars>>
notSlowmodeVars == <<caVars, ownerVars, whereVars, rehostVars, configVars>>
notConfigVars == <<caVars, ownerVars, whereVars, rehostVars, slowmodeVars>>

caNext == CallCanActOn /\ UNCHANGED notCaVars

ownerNext ==
    \/ LoadGlobalConfig /\ UNCHANGED notOwnerVars
    \/ \E author \in Users, channel \in Channels :
          ReloadGlobalPluginsCmd(author, channel) /\ UNCHANGED notOwnerVars
    \/ \E run \in pendingRuns : ReloadMessageSent(run) /\ UNCHANGED notOwnerVars
    \/ \E run \in pendingRuns : ReloadMessageFailed(run) /\ UNCHANGED notOwnerVars

whereNext ==
    \/ \E c \in WhereCalls, id \in VoiceChannelIDs, prepend \in Prepends :
          sendWhere(c, id, prepend) /\ UNCHANGED notWhereVars
    \/ \E c \in WhereCalls, code \in InviteCodes :
          InviteResolved(c, code) /\ UNCHANGED notWhereVars
    \/ \E c \in WhereCalls : InviteThrew(c) /\ UNCHANGED notWhereVars

rehostNext ==
    \/ \E c \in RehostCalls, size \in AttachmentSizes :
          rehostAttachment(c, size) /\ UNCHANGED notRehostVars
    \/ \E c \in RehostCalls : DownloadResolved(c) /\ UNCHANGED notRehostVars
    \/ \E c \in RehostCalls : DownloadRejected(c) /\ UNCHANGED notRehostVars
    \/ \E c \in RehostCalls : ReadFileResolved(c) /\ UNCHANGED notRehostVars
    \/ \E c \in RehostCalls : ReadFileRejected(c) /\ UNCHANGED notRehostVars
    \/ \E c \in RehostCalls, attachments \in RehostAttachmentLists :
          CreateMessageResolved(c, attachments) /\ UNCHANGED notRehostVars
    \/ \E c \in RehostCalls : CreateMessageRejected(c) /\ UNCHANGED notRehostVars

slowmodeNext ==
    \/ \E g \in Guilds : onLoad(g) /\ UNCHANGED notSlowmodeVars
    \/ \E g \in Guilds : onUnload(g) /\ UNCHANGED notSlowmodeVars
    \/ \E i \in Instances : IntervalElapsed(i) /\ UNCHANGED notSlowmodeVars
    \/ \E g \in Guilds : SavedMessageCreated(g) /\ UNCHANGED notSlowmodeVars

configNext ==
    \/ \E custom \in CustomPreprocessors :
          getPluginConfigPreprocessor(custom) /\ UNCHANGED notConfigVars
    \/ /\ pp.pc = "ready"
       /\ \E e \in {"undefined", "notBoolean"}, c \in BaseConfigs \cup {EmptyCfg},
             ho \in BOOLEAN, os \in OverrideLists :
             /\ ho \/ os = <<>>
             /\ CallPreprocessor(pluginOptions(e, c, ho, os))
             /\ UNCHANGED notConfigVars
    \/ Step1 /\ UNCHANGED notConfigVars
    \/ Step2 /\ UNCHANGED notConfigVars
    \/ Step3 /\ UNCHANGED notConfigVars
    \/ CustomResolved /\ UNCHANGED notConfigVars
    \/ CustomRejected /\ UNCHANGED notConfigVars
    \/ Step4 /\ UNCHANGED notConfigVars
    \/ Step4MergeThrows /\ UNCHANGED notConfigVars

Next == caNext \/ ownerNext \/ whereNext \/ rehostNext \/ slowmodeNext \/ configNext

Spec == Init /\ [][Next]_vars

SpecCanActOn == Init /\ [][caNext]_vars

SpecOwner == Init /\ [][ownerNext]_vars

SpecWhere == Init /\ [][whereNext]_vars

SpecRehost == Init /\ [][rehostNext]_vars

SpecSlowmode == Init /\ [][slowmodeNext]_vars

SpecConfig == Init /\ [][configNext]_vars
(***************************************************************************)
(* Properties                                                              *)
(***************************************************************************)

\* C7: canActOn is false whenever member2 is the bot's own user; otherwise it is true
\* exactly when level(member1) > level(member2), or >= when allowSameLevel is true;
\* with allowSameLevel omitted a member never acts on a member of equal level.
C7_CanActOn ==
    ca_call.called =>
        LET l1 == ca_call.level[ca_call.member1]
            l2 == ca_call.level[ca_call.member2]
        IN  /\ ca_call.member2 = "bot" => ca_call.result = FALSE
            /\ ca_call.member2 # "bot" =>
                  (ca_call.result <=> (l1 > l2 \/ (ca_call.allow = "true" /\ l1 = l2)))
            /\ ca_call.allow = "omitted" /\ l1 = l2 => ca_call.result = FALSE

\* A member other than the bot was asked about itself with allowSameLevel omitted.
C7_Witness ==
    /\ ca_call.called
    /\ ca_call.member1 = ca_call.member2
    /\ ca_call.member1 # "bot"
    /\ ca_call.allow = "omitted"
    /\ ca_call.result = FALSE

\* C5: the pre-filter admits a command exactly when its author is in the configured
\* owners list, and nobody when no list is configured; as long as every command
\* came from a non-owner, no reload is recorded, pending or performed.
C5_OwnersOnly ==
    /\ lastFilter.set =>
          (lastFilter.admitted <=>
              (globalConfig.hasOwners /\ lastFilter.author \in globalConfig.owners))
    /\ (\A a \in commandsFrom : ~(globalConfig.hasOwners /\ a \in globalConfig.owners)) =>
          /\ ~activeReload.set
          /\ pendingRuns = {}
          /\ reloadCalls = 0

\* Every user other than the single configured owner has sent the command and none
\* was admitted.
C5_Witness ==
    /\ globalConfig.hasOwners
    /\ globalConfig.owners = {"u3"}
    /\ commandsFrom = {"u1", "u2"}
    /\ lastFilter.set
    /\ ~lastFilter.admitted
    /\ ~activeReload.set

\* C3: an invocation of sendWhere sends exactly one message: the not-in-a-channel
\* message, with no invite requested, when the voice channel is not in the guild;
\* only the invite error message when createOrReuseInvite throws; otherwise only the
\* location message, with the channel's name and the invite's link.
C3_OneMessage ==
    \A c \in WhereCalls :
        LET w == whereCalls[c]
        IN  /\ Len(w.sent) <= 1
            /\ w.pc = "awaitInvite" => w.sent = <<>> /\ w.invitesRequested = 1
            /\ w.pc = "done" =>
                  /\ Len(w.sent) = 1
                  /\ w.channelID \notin {"v1", "v2"} =>
                        /\ w.sent[1].kind = "notInChannel"
                        /\ w.sent[1].text = "That user is not in a channel"
                        /\ w.sent[1].prepend = w.prepend
                        /\ w.invitesRequested = 0
                  /\ w.invite = "threw" =>
                        /\ w.sent[1].kind = "error"
                        /\ w.sent[1].text = "Cannot create an invite to that channel!"
                  /\ w.invite \in InviteCodes =>
                        /\ w.sent[1].kind = "location"
                        /\ w.sent[1].name = (IF w.channelID = "v1" THEN "General" ELSE "Music")
                        /\ w.sent[1].link = <<"https://discord.gg", w.invite>>

\* An invocation whose invite creation threw has finished.
C3_Witness ==
    \E c \in WhereCalls :
        /\ whereCalls[c].pc = "done"
        /\ whereCalls[c].invite = "threw"
        /\ Len(whereCalls[c].sent) = 1

\* C4: rehostAttachment always returns, and what it returns is decided by the first
\* failing stage, later stages not being run: too big (size > 8 MiB, 8 MiB itself
\* accepted) before any download; download failure before any read or message; read
\* failure before any message; the rehost message's first attachment URL only when
\* every stage succeeded.
C4_FirstFailure ==
    \A c \in RehostCalls :
        LET r == rehostCalls[c]
        IN  /\ r.pc \in {"idle", "downloading", "reading", "posting", "returned"}
            /\ r.pc # "idle" /\ r.size > 8 * 1024 * 1024 =>
                  /\ r.pc = "returned"
                  /\ r.result = "Attachment too big to rehost"
                  /\ r.downloads = 0 /\ r.reads = 0 /\ r.messages = 0
            /\ r.pc # "idle" /\ r.size <= 8 * 1024 * 1024 => r.downloads = 1
            /\ r.failed = "download" =>
                  /\ r.pc = "returned"
                  /\ r.result = "Failed to download attachment after 3 tries"
                  /\ r.reads = 0 /\ r.messages = 0
            /\ r.failed = "read" =>
                  /\ r.pc = "returned"
                  /\ r.result = "Failed to rehost attachment"
                  /\ r.messages = 0
            /\ r.failed = "post" =>
                  /\ r.pc = "returned"
                  /\ r.result = "Failed to rehost attachment"
            /\ r.pc = "returned" =>
                  (r.result \in RehostUrls <=> r.failed = "none")
            /\ r.pc = "returned" /\ r.failed = "none" =>
                  r.downloads = 1 /\ r.reads = 1 /\ r.messages = 1

\* An attachment of exactly 8 MiB was rehosted.
C4_Witness ==
    \E c \in RehostCalls :
        /\ rehostCalls[c].size = 8 * 1024 * 1024
        /\ rehostCalls[c].pc = "returned"
        /\ rehostCalls[c].result \in RehostUrls

C8_LoadedInstances == {sm_loaded[g] : g \in Guilds} \ {0}

\* C8: no callback of an unloaded instance runs, and the active listeners and the
\* active timers are as many as the loaded instances.
C8_NoStaleCallbacks ==
    /\ \A r \in sm_runs : ~r.stale
    /\ Cardinality(sm_listeners) = Cardinality(C8_LoadedInstances)
    /\ Cardinality(sm_timers) = Cardinality(C8_LoadedInstances)

\* Whether every validation of steps 1 and 2 accepts the options.
C1_ValidationsPass(o) ==
    /\ o.enabled # "notBoolean"
    /\ \A i \in 1..Len(o.overrides) : o.overrides[i].level \in {">=50", "<10"}
    /\ o.hasConfig => validate(configSchema, o.config) = {}
    /\ \A i \in 1..Len(o.overrides) :
          validate(configSchema, overrideConfigOrEmpty(o.overrides[i])) = {}

C1_Stages ==
    IF pp.custom = "none"
    THEN <<"basic", "partial", "decode">>
    ELSE <<"basic", "partial", "custom", "decode">>

\* C1: the stages run in the order basic structure, partial schema, custom
\* preprocessor, full decode; the custom preprocessor is called at most once and only
\* when the basic and every partial validation accepted the input; when one of them
\* rejects it, a ConfigValidationError is thrown, the custom preprocessor is not
\* called and nothing is returned.
C1_StageOrder ==
    /\ pp.customCalls <= 1
    /\ \E k \in 0..Len(C1_Stages) : pp.log = SubSeq(C1_Stages, 1, k)
    /\ pp.customCalls = 1 => C1_ValidationsPass(pp.input)
    /\ pp.pc \notin {"unbuilt", "ready"} /\ ~C1_ValidationsPass(pp.input) =>
          /\ pp.pc \in {"step1", "step2", "threw"}
          /\ pp.customCalls = 0
          /\ pp.result = NoResult
          /\ pp.pc = "threw" => pp.error.type = "ConfigValidationError"

\* A call with a config and an override config returned after its custom
\* preprocessor was called.
C1_Witness ==
    /\ pp.pc = "returned"
    /\ pp.customCalls = 1
    /\ pp.input.hasConfig
    /\ \E i \in 1..Len(pp.input.overrides) : pp.input.overrides[i].hasConfig
    /\ pp.log = <<"basic", "partial", "custom", "decode">>

\* C2: the config returned is the options' config merged with the plugin's default
\* options and decoded against the full schema, and is empty only when the options
\* hold no config.
C2_MergedWithDefaults ==
    pp.pc = "returned" =>
        pp.result.config =
            IF pp.options.hasConfig
            THEN decodeAndValidateStrict(configSchema,
                                         mergeConfig(defaultConfig, pp.options.config))
            ELSE EmptyCfg

\* The returned overrides against the overrides of options o: same length and order,
\* same criteria, and configs holding only key paths of the override's own config,
\* with the values of the decoded merge of o's config and the override's config.
C6_OverridesOf(o) ==
    /\ Len(pp.result.overrides) = Len(o.overrides)
    /\ \A i \in 1..Len(pp.result.overrides) :
          i <= Len(o.overrides) =>
              LET own == overrideConfigOrEmpty(o.overrides[i])
                  merged == mergeConfig(step4Base(o), own)
                  got == pp.result.overrides[i]
              IN  /\ got.level = o.overrides[i].level
                  /\ DOMAIN got.config \subseteq DOMAIN own
                  /\ \A p \in DOMAIN got.config :
                        p \in DOMAIN merged /\ got.config[p] = merged[p]
                  /\ \A p \in DOMAIN step4Base(o) \ DOMAIN own : p \notin DOMAIN got.config

\* C6: the returned overrides match the input's overrides.
C6_OverridesOfInput == pp.pc = "returned" => C6_OverridesOf(pp.input)

\* C6, amended: the returned overrides match the overrides of the options that
\* step 4 worked on, which are the custom preprocessor's result when one is given.
C6_OverridesOfPreprocessed == pp.pc = "returned" => C6_OverridesOf(pp.options)

\* Two overrides with different criteria were returned, one of them with a nested
\* key of its own while the base config holds a sibling key it does not.
C6_Witness ==
    /\ pp.pc = "returned"
    /\ Len(pp.result.overrides) = 2
    /\ pp.result.overrides[1].level # pp.result.overrides[2].level
    /\ "n.x" \in DOMAIN pp.options.config
    /\ \E i \in 1..2 :
          /\ "n.y" \in DOMAIN pp.result.overrides[i].config
          /\ "n.x" \notin DOMAIN pp.result.overrides[i].config
====
